---- MODULE Spec2Model ----
(***************************************************************************)
(* rss-to-x: pick an episode of a podcast feed, resolve its Spotify URL,   *)
(* fit the post into X's weighted length and publish it.                   *)
(*                                                                         *)
(* Strings are run-length encoded sequences of code points: a string is a  *)
(* sequence of runs [c |-> character, n |-> repetitions], so a title of    *)
(* 300 code points is one run.  Time is counted in days.                   *)
(***************************************************************************)
EXTENDS Integers, Sequences, FiniteSets, TLC

\* ------------------------------------------------------------------------
\* Bounds of the model
\* ------------------------------------------------------------------------
MaxItems == 5

MaxCands == 3

MaxRunCands == 2

MaxFeed == 2

MaxDigestFeed == 3

Now == 1000

\* ------------------------------------------------------------------------
\* Strings
\* ------------------------------------------------------------------------
Empty == << >>

S(c, n) == IF n > 0 THEN << [c |-> c, n |-> n] >> ELSE << >>

RECURSIVE Norm(_)
Norm(s) ==
    IF Len(s) = 0 THEN << >>
    ELSE IF s[1].n = 0 THEN Norm(Tail(s))
    ELSE IF Len(s) = 1 THEN s
    ELSE IF s[2].n = 0 THEN Norm(<<s[1]>> \o Tail(Tail(s)))
    ELSE IF s[1].c = s[2].c
         THEN Norm(<< [c |-> s[1].c, n |-> s[1].n + s[2].n] >> \o Tail(Tail(s)))
    ELSE <<s[1]>> \o Norm(Tail(s))

Cat(a, b) == Norm(a \o b)

RECURSIVE CpLen(_)
CpLen(s) == IF Len(s) = 0 THEN 0 ELSE s[1].n + CpLen(Tail(s))

\* the first k code points: cps.slice(0, k).join("")
RECURSIVE Take(_, _)
Take(s, k) ==
    IF k <= 0 \/ Len(s) = 0 THEN << >>
    ELSE IF s[1].n >= k THEN << [c |-> s[1].c, n |-> k] >>
    ELSE <<s[1]>> \o Take(Tail(s), k - s[1].n)

Truthy(s) == s # Empty

\* ------------------------------------------------------------------------
\* Feed items
\* ------------------------------------------------------------------------
NoDate == -1

\* a date string that does not parse
BadDate == -2

\* embed: how another field of the item spells the episode's Spotify address:
\* "https" (a full URL), "bare" (no scheme), "uri" (spotify:episode:id), "none"
ItemWith(t, l, g, d, e) == [title |-> t, link |-> l, guid |-> g, date |-> d, embed |-> e]

Item(t, l, g, d) == ItemWith(t, l, g, d, "none")

days90 == 90

toDateMs(item) == IF item.date = NoDate \/ item.date = BadDate THEN 0 ELSE item.date

keyFn(it) == IF Truthy(it.link) THEN it.link
             ELSE IF Truthy(it.guid) THEN it.guid
             ELSE it.title

\* ------------------------------------------------------------------------
\* Episode pool selector (digest)
\* ------------------------------------------------------------------------
compareByDateAsc(a, b) == toDateMs(a) - toDateMs(b)

\* the comparator of items.sort: newest first
compareByDate(a, b) == toDateMs(b) - toDateMs(a)

\* Array.prototype.sort is stable: x goes behind everything that does not
\* compare greater than it
RECURSIVE InsertSorted(_, _)
InsertSorted(s, x) ==
    IF Len(s) = 0 THEN <<x>>
    ELSE IF compareByDate(s[1], x) > 0 THEN <<x>> \o s
    ELSE <<s[1]>> \o InsertSorted(Tail(s), x)

RECURSIVE sortItems(_)
sortItems(items) ==
    IF Len(items) = 0 THEN << >>
    ELSE InsertSorted(sortItems(SubSeq(items, 1, Len(items) - 1)), items[Len(items)])

RECURSIVE DistinctFrom(_, _)
DistinctFrom(items, seen) ==
    IF Len(items) = 0 THEN << >>
    ELSE LET k == keyFn(items[1]) IN
         IF ~Truthy(k) \/ k \in seen THEN DistinctFrom(Tail(items), seen)
         ELSE <<items[1]>> \o DistinctFrom(Tail(items), seen \cup {k})

distinctByKeyNoSeen(items) == SelectSeq(items, LAMBDA it : Truthy(keyFn(it)))

distinctByKey(items) == DistinctFrom(items, {})

Range(s) == { s[i] : i \in 1..Len(s) }

pickFromAny(pool, used) == Range(SelectSeq(pool, LAMBDA it : Truthy(keyFn(it))))

\* the items pickFrom may return; the empty set stands for null
pickFrom(pool, used) ==
    Range(SelectSeq(pool, LAMBDA it : Truthy(keyFn(it)) /\ keyFn(it) \notin used))

\* pickFrom(a) || pickFrom(b), as the list of items pushed (none for null)
PickOr(a, b, used) ==
    LET first == pickFrom(a, used) IN
    LET got == IF first # {} THEN first ELSE pickFrom(b, used) IN
    IF got = {} THEN { << >> } ELSE { <<it>> : it \in got }

UsedAfter(used, pushed) == used \cup { keyFn(pushed[i]) : i \in 1..Len(pushed) }

RECURSIVE FillUp(_, _, _)
FillUp(picked, rest, used) ==
    IF Len(picked) >= 3 THEN { picked }
    ELSE LET c == pickFrom(rest, used) IN
         IF c = {} THEN { picked }
         ELSE UNION { FillUp(Append(picked, it), rest, used \cup {keyFn(it)}) : it \in c }

recentPoolStrict(rest) == SelectSeq(rest, LAMBDA it : toDateMs(it) > Now - days90)

recentPoolOf(rest) == SelectSeq(rest, LAMBDA it : toDateMs(it) >= Now - days90)

oldPoolOf(rest) == SelectSeq(rest, LAMBDA it : toDateMs(it) < Now - days90)

\* every list selectThreeEpisodes may return, over the random picks
selectThreeEpisodes(items) ==
    LET sorted == sortItems(items)
        uniq == distinctByKey(sorted)
    IN  IF Len(uniq) <= 3 THEN { SubSeq(uniq, 1, Len(uniq)) }
        ELSE
        LET newest == uniq[1]
            rest == Tail(uniq)
            recentPool == recentPoolOf(rest)
            oldPool == oldPoolOf(rest)
            used0 == { keyFn(newest) }
        IN  UNION { UNION { { SubSeq(p, 1, IF Len(p) < 3 THEN Len(p) ELSE 3) :
                              p \in FillUp(<<newest>> \o second \o third, rest,
                                           UsedAfter(UsedAfter(used0, second), third)) } :
                            third \in PickOr(oldPool, rest, UsedAfter(used0, second)) } :
                    second \in PickOr(recentPool, rest, used0) }

\* ------------------------------------------------------------------------
\* Fuzzy matching of a feed title against search candidates
\* ------------------------------------------------------------------------
\* characters: "a" "b" "c" letters, "A" capital a, "FW_A" full-width capital a,
\* "1" a digit, " ", "TAB" and "NL" white space, "'" and "DQ" quotes, "-" punctuation
nfkc(c) == IF c = "FW_A" THEN "A" ELSE c

toLowerCase(c) == IF c = "A" THEN "a" ELSE c

isSpace(c) == c \in { " ", "TAB", "NL" }

isQuote(c) == c \in { "'", "DQ" }

isLetterOrNumber(c) == c \in { "a", "b", "c", "A", "FW_A", "1" }

MapChars(s, f(_)) == Norm([ i \in 1..Len(s) |-> [c |-> f(s[i].c), n |-> s[i].n] ])

\* .replace(/\s+/g, " ")
collapseSpaces(s) ==
    LET t == MapChars(s, LAMBDA c : IF isSpace(c) THEN " " ELSE c)
    IN  [ i \in 1..Len(t) |-> IF t[i].c = " " THEN [c |-> " ", n |-> 1] ELSE t[i] ]

RECURSIVE trimStart(_)
trimStart(s) == IF Len(s) > 0 /\ isSpace(s[1].c) THEN trimStart(Tail(s)) ELSE s

RECURSIVE trimEnd(_)
trimEnd(s) ==
    IF Len(s) > 0 /\ isSpace(s[Len(s)].c) THEN trimEnd(SubSeq(s, 1, Len(s) - 1)) ELSE s

trim(s) == trimEnd(trimStart(s))

normalizeForMatch(s) ==
    LET s1 == MapChars(s, LAMBDA c : toLowerCase(nfkc(c)))
        s2 == collapseSpaces(s1)
        s3 == Norm(SelectSeq(s2, LAMBDA r : ~isQuote(r.c)))
        s4 == MapChars(s3, LAMBDA c : IF isLetterOrNumber(c) \/ isSpace(c) THEN c ELSE " ")
    IN  trim(collapseSpaces(s4))

\* hay.includes(needle), on runs: the needle's first and last run may lie
\* inside a run of hay, the runs between them are runs of hay
Includes(hay, needle) ==
    LET k == Len(needle) IN
    IF k = 0 THEN TRUE
    ELSE \E j \in 1..(Len(hay) - k + 1) :
           /\ hay[j].c = needle[1].c
           /\ hay[j + k - 1].c = needle[k].c
           /\ IF k = 1 THEN hay[j].n >= needle[1].n
              ELSE /\ hay[j].n >= needle[1].n
                   /\ hay[j + k - 1].n >= needle[k].n
                   /\ \A i \in 2..(k - 1) : hay[j + i - 1] = needle[i]

\* new Set(s.split(" "))
RECURSIVE SplitSpaces(_, _)
SplitSpaces(s, cur) ==
    IF Len(s) = 0 THEN { cur }
    ELSE IF s[1].c = " "
         THEN { cur } \cup (IF s[1].n > 1 THEN { Empty } ELSE {}) \cup SplitSpaces(Tail(s), Empty)
    ELSE SplitSpaces(Tail(s), Append(cur, s[1]))

IsDate(d) == d # NoDate /\ d # BadDate

Abs(x) == IF x < 0 THEN 0 - x ELSE x

Min(x, y) == IF x < y THEN x ELSE y

Max(x, y) == IF x > y THEN x ELSE y

dateBonusFar(rssDateISO, spDate) ==
    IF IsDate(rssDateISO) /\ IsDate(spDate)
    THEN Min(200, Abs(rssDateISO - spDate) * 20)
    ELSE 0

dateBonus(rssDateISO, spDate) ==
    IF IsDate(rssDateISO) /\ IsDate(spDate)
    THEN Max(0, 200 - Min(200, Abs(rssDateISO - spDate) * 20))
    ELSE 0

scoreEpisodeMatch(rssTitle, rssDateISO, spName, spDate) ==
    LET a == normalizeForMatch(rssTitle)
        b == normalizeForMatch(spName)
    IN  IF ~Truthy(a) \/ ~Truthy(b) THEN 0
        ELSE (IF a = b THEN 1000 ELSE 0)
           + (IF Includes(b, a) THEN 300 ELSE 0)
           + (IF Includes(a, b) THEN 200 ELSE 0)
           + Cardinality(SplitSpaces(a, Empty) \cap SplitSpaces(b, Empty)) * 25
           + dateBonus(rssDateISO, spDate)

Candidate(name, date, url) == [name |-> name, release_date |-> date, url |-> url]

minScore == 250

isBetterOrEqual(s, bestScore) == s >= bestScore

isBetter(s, bestScore) == s > bestScore

\* the loop over the candidates: the index of best (0 for null) and bestScore
RECURSIVE bestOf(_, _, _, _, _, _)
bestOf(items, i, best, bestScore, rssTitle, rssDateISO) ==
    IF i > Len(items) THEN [best |-> best, bestScore |-> bestScore]
    ELSE LET sc == scoreEpisodeMatch(rssTitle, rssDateISO, items[i].name, items[i].release_date)
         IN  IF isBetter(sc, bestScore)
             THEN bestOf(items, i + 1, i, sc, rssTitle, rssDateISO)
             ELSE bestOf(items, i + 1, best, bestScore, rssTitle, rssDateISO)

\* tryResolveSpotifyEpisodeUrlViaSearch once the search answered with items;
\* Empty stands for null
resolveFromItems(items, rssTitle, rssDateISO) ==
    IF Len(items) = 0 THEN Empty
    ELSE LET r == bestOf(items, 1, 0, -1, rssTitle, rssDateISO)
         IN  IF r.best # 0 /\ r.bestScore >= minScore /\ Truthy(items[r.best].url)
             THEN items[r.best].url
             ELSE Empty

\* ------------------------------------------------------------------------
\* Text fitting
\* ------------------------------------------------------------------------
\* further characters: "w" a CJK character, "e" an emoji outside the BMP (two
\* UTF-16 units), "HS" half of such a pair, "ELL" the ellipsis, "u" a
\* character of a URL, "g" a character of a guid, "CM" a combining mark that
\* belongs to the character before it, "{title}" and "{url}" the placeholders
\* of a phrase
ell == S("ELL", 1)

maxWeightedTweetLength == 280

transformedURLLength == 23

\* a run of URL characters is read as a URL once scheme and host are there
minUrlLen == 23

isWide(c) == c \in { "w", "e", "HS", "ELL", "FW_A" }

runWeight(r) ==
    IF r.c = "u" THEN (IF r.n >= minUrlLen THEN transformedURLLength ELSE r.n)
    ELSE IF r.c = "{title}" THEN 7 * r.n
    ELSE IF r.c = "{url}" THEN 5 * r.n
    ELSE IF isWide(r.c) THEN 2 * r.n
    ELSE r.n

RECURSIVE weightedLength(_)
weightedLength(s) == IF Len(s) = 0 THEN 0 ELSE runWeight(s[1]) + weightedLength(Tail(s))

\* parseTweet(text).valid
parseTweetValid(text) ==
    weightedLength(text) > 0 /\ weightedLength(text) <= maxWeightedTweetLength

HasChar(s, c) == \E i \in 1..Len(s) : s[i].c = c

RECURSIVE Repeat(_, _)
Repeat(s, k) == IF k <= 0 THEN << >> ELSE s \o Repeat(s, k - 1)

\* s.replaceAll(ph, val)
RECURSIVE replaceAll(_, _, _)
replaceAll(s, ph, val) ==
    IF Len(s) = 0 THEN << >>
    ELSE (IF s[1].c = ph THEN Repeat(val, s[1].n) ELSE <<s[1]>>) \o replaceAll(Tail(s), ph, val)

\* s.replace(ph, val): the first occurrence only
RECURSIVE replaceFirst(_, _, _)
replaceFirst(s, ph, val) ==
    IF Len(s) = 0 THEN << >>
    ELSE IF s[1].c = ph
         THEN val \o S(ph, s[1].n - 1) \o Tail(s)
         ELSE <<s[1]>> \o replaceFirst(Tail(s), ph, val)

renderNoAppend(phrase, title, url) ==
    Norm(replaceAll(Norm(replaceAll(phrase, "{title}", title)), "{url}", url))

renderTemplate(phrase, title, url) ==
    LET p == IF HasChar(phrase, "{url}") THEN phrase ELSE phrase \o S(" ", 1) \o S("{url}", 1)
    IN  Norm(replaceAll(Norm(replaceAll(p, "{title}", title)), "{url}", url))

\* String(rawTitle ?? "").trim().replace(/\s+/g, " ")
cleanTitle(rawTitle) == collapseSpaces(trim(rawTitle))

RECURSIVE Drop(_, _)
Drop(s, k) ==
    IF k <= 0 \/ Len(s) = 0 THEN s
    ELSE IF s[1].n > k THEN << [c |-> s[1].c, n |-> s[1].n - k] >> \o Tail(s)
    ELSE Drop(Tail(s), k - s[1].n)

candidateRest(cps, mid) == Cat(Drop(cps, mid), IF mid < CpLen(cps) THEN ell ELSE Empty)

\* cps.slice(0, mid).join("") + (mid < cps.length ? ell : "")
candidateAt(cps, mid) == Cat(Take(cps, mid), IF mid < CpLen(cps) THEN ell ELSE Empty)

units(c) == IF c = "e" THEN 2 ELSE 1

\* String(text).slice(0, k): k UTF-16 units, which may halve a pair
RECURSIVE slice16(_, _)
slice16(s, k) ==
    IF k <= 0 \/ Len(s) = 0 THEN << >>
    ELSE IF units(s[1].c) * s[1].n <= k
         THEN <<s[1]>> \o slice16(Tail(s), k - units(s[1].c) * s[1].n)
    ELSE IF units(s[1].c) = 1 THEN S(s[1].c, k)
    ELSE S(s[1].c, k \div 2) \o S("HS", k % 2)

titleSearchNone(p, t, url, l, h, b) == b

\* the title loop of fitTitleTo280 as a function: the best cut it ends on
RECURSIVE titleSearch(_, _, _, _, _, _)
titleSearch(p, t, url, l, h, b) ==
    IF l > h THEN b
    ELSE LET m == (l + h) \div 2
             cand == candidateAt(t, m)
         IN  IF parseTweetValid(renderTemplate(p, cand, url))
             THEN titleSearch(p, t, url, m + 1, h, cand)
             ELSE titleSearch(p, t, url, l, m - 1, b)

\* fitTitleTo280(phrase, rawTitle, url).finalTitle
finalTitleOf(p, rawTitle, url) ==
    LET t == cleanTitle(rawTitle)
    IN  IF ~HasChar(p, "{title}") THEN t
        ELSE IF parseTweetValid(renderTemplate(p, t, url)) THEN t
        ELSE titleSearch(p, t, url, 0, CpLen(t), Empty)

\* ------------------------------------------------------------------------
\* Inputs of the model
\* ------------------------------------------------------------------------
Link(k) == S("u", 20 + k)

\* feed items of the selector: one key shared by a link and a guid, a key
\* that is a title, equal dates, a date on the 90 day boundary, no date
SelectPool ==
    { Item(S("a", 1), Link(1), Empty, Now - 1),
      Item(S("a", 2), Empty, Link(1), Now - 200),
      Item(S("a", 4), Empty, Empty, NoDate),
      Item(S("a", 5), Link(5), Empty, Now - 30),
      Item(S("a", 6), Link(6), Empty, Now - 91),
      Item(S("a", 7), Empty, S("g", 7), Now - 400),
      Item(S("a", 8), Link(8), Empty, Now - 30),
      Item(S("a", 9), Link(9), S("g", 9), Now - 90) }

SeqsUpTo(set, n) == UNION { [1..k -> set] : k \in 0..n }

Str(chars) == Norm([ i \in 1..Len(chars) |-> [c |-> chars[i], n |-> 1] ])

SpotifyUrl(k) == S("u", 50 + k)

\* feed titles and dates the search is asked about
SearchTitles ==
    { Str(<<"a", " ", "b">>), Str(<<"a", " ", "b", " ", "c">>), Str(<<"FW_A">>), Str(<<"-">>),
      Str(<<"b", " ", "a">>) }

SearchDates == { NoDate, Now, Now - 10 }

\* search candidates: two that tie on every title, a near date, no date, the
\* tokens in another order, no name, no URL, nothing in common, a name that
\* holds a title inside other words
CandPool ==
    { Candidate(Str(<<"a", " ", "b">>), Now, SpotifyUrl(1)),
      Candidate(Str(<<"A", "-", "b", "'">>), Now, SpotifyUrl(2)),
      Candidate(Str(<<"a">>), Now - 8, SpotifyUrl(3)),
      Candidate(Str(<<"a", " ", "b", " ", "c">>), NoDate, SpotifyUrl(4)),
      Candidate(Str(<<"b", "TAB", "a">>), Now, SpotifyUrl(5)),
      Candidate(Empty, Now, SpotifyUrl(6)),
      Candidate(Str(<<"a", " ", "b">>), Now, Empty),
      Candidate(Str(<<"c", "1">>), BadDate, SpotifyUrl(8)),
      Candidate(Str(<<"c", "a", " ", "b", "c">>), NoDate, SpotifyUrl(9)) }

\* ------------------------------------------------------------------------
\* State
\* ------------------------------------------------------------------------
VARIABLES
    pc,           \* where the run stands
    error,        \* what the run failed with (NoError for none)
    variant,      \* which script runs: "simple", "search" or "digest"
    env,          \* the environment variables that are set
    feed,         \* the items the feed holds
    allItems,     \* the items read from the feed, in feed order
    episodes,     \* the digest's episodes
    idx,          \* the digest's loop index i
    replyToId,    \* the digest's replyToId
    picked,       \* the picked item
    episodeTitle, \* the picked item's title
    episodePage,  \* the picked item's page: link, else guid
    rssDateISO,   \* the picked item's date
    episodeUrl,   \* the URL resolved so far (Empty: none)
    token,        \* the search API's access token (FALSE: none)
    searchItems,  \* the items of the search response being scored
    warned,       \* the fallback warning was logged
    phrase,       \* fitTitleTo280: the phrase
    title,        \* fitTitleTo280: the cleaned title
    finalTitle,   \* fitTitleTo280: the title as it was fitted
    text,         \* the text to publish
    cps,          \* the code points a loop bisects
    lo,           \* the loops' lo
    hi,           \* the loops' hi
    best,         \* the loops' best
    fpc,          \* where fitTitleTo280 stands
    calls,        \* the network calls made, in order, each with its outcome
    posts         \* the publish calls made, in order

cfgVars == << variant, env, feed >>

selectVars == << allItems, episodes >>

digestVars == << idx, replyToId >>

pickVars == << picked, episodeTitle, episodePage, rssDateISO >>

resolveVars == << episodeUrl, token, searchItems, warned >>

fitVars == << phrase, title, finalTitle, text, cps, lo, hi, best, fpc >>

netVars == << calls, posts >>

vars == << pc, error, cfgVars, selectVars, digestVars, pickVars, resolveVars, fitVars, netVars >>

NoItem == Item(Empty, Empty, Empty, NoDate)

\* no failure; a failure carries a message and, when the publish endpoint
\* answered, the status and the body of its response
NoError == [msg |-> "", status |-> 0, body |-> ""]

NoEnv == [rssUrl |-> FALSE, bearer |-> FALSE, dryRun |-> FALSE, skipLatest |-> FALSE,
          xCreds |-> FALSE, spotify |-> FALSE]

\* the locals of a run before it starts
Fresh ==
    /\ error = NoError
    /\ allItems = << >> /\ episodes = << >>
    /\ idx = 0 /\ replyToId = 0
    /\ picked = NoItem /\ episodeTitle = Empty /\ episodePage = Empty /\ rssDateISO = NoDate
    /\ episodeUrl = Empty /\ token = FALSE /\ searchItems = << >> /\ warned = FALSE
    /\ phrase = Empty /\ title = Empty /\ finalTitle = Empty /\ text = Empty
    /\ cps = Empty /\ lo = 0 /\ hi = 0 /\ best = Empty /\ fpc = "idle"
    /\ calls = << >> /\ posts = << >>

\* ------------------------------------------------------------------------
\* The selector alone: selectThreeEpisodes applied to a feed
\* ------------------------------------------------------------------------
InitSelect ==
    /\ pc = "select"
    /\ variant = "digest" /\ env = NoEnv
    /\ feed \in SeqsUpTo(SelectPool, MaxItems)
    /\ allItems = feed
    /\ error = NoError
    /\ episodes = << >>
    /\ idx = 0 /\ replyToId = 0
    /\ picked = NoItem /\ episodeTitle = Empty /\ episodePage = Empty /\ rssDateISO = NoDate
    /\ episodeUrl = Empty /\ token = FALSE /\ searchItems = << >> /\ warned = FALSE
    /\ phrase = Empty /\ title = Empty /\ finalTitle = Empty /\ text = Empty
    /\ cps = Empty /\ lo = 0 /\ hi = 0 /\ best = Empty /\ fpc = "idle"
    /\ calls = << >> /\ posts = << >>

SelectThree ==
    /\ pc = "select"
    /\ episodes' \in selectThreeEpisodes(allItems)
    /\ pc' = "selected"
    /\ UNCHANGED << error, cfgVars, allItems, digestVars, pickVars, resolveVars, fitVars, netVars >>

NextSelect == SelectThree

SpecSelect == InitSelect /\ [][NextSelect]_vars

\* ------------------------------------------------------------------------
\* The search alone: the candidates of a response are scored
\* ------------------------------------------------------------------------
InitSearch ==
    /\ pc = "search"
    /\ variant = "search" /\ env = NoEnv /\ feed = << >>
    /\ episodeTitle \in SearchTitles
    /\ rssDateISO \in SearchDates
    /\ searchItems \in SeqsUpTo(CandPool, MaxCands)
    /\ error = NoError
    /\ allItems = << >> /\ episodes = << >>
    /\ idx = 0 /\ replyToId = 0
    /\ picked = NoItem /\ episodePage = Empty
    /\ episodeUrl = Empty /\ token = TRUE /\ warned = FALSE
    /\ phrase = Empty /\ title = Empty /\ finalTitle = Empty /\ text = Empty
    /\ cps = Empty /\ lo = 0 /\ hi = 0 /\ best = Empty /\ fpc = "idle"
    /\ calls = << >> /\ posts = << >>

ScoreCandidates ==
    /\ pc = "search"
    /\ episodeUrl' = resolveFromItems(searchItems, episodeTitle, rssDateISO)
    /\ pc' = "searched"
    /\ UNCHANGED << error, cfgVars, selectVars, digestVars, pickVars, token, searchItems,
                    warned, fitVars, netVars >>

NextSearch == ScoreCandidates

SpecSearch == InitSearch /\ [][NextSearch]_vars

\* ------------------------------------------------------------------------
\* fitTitleTo280 and hardTrimWholeText, one loop iteration a step
\* ------------------------------------------------------------------------
\* hardTrimWholeText(t) starts
StartTrim(t) ==
    /\ cps' = t
    /\ lo' = 0
    /\ hi' = CpLen(t)
    /\ best' = Empty
    /\ fpc' = "trim_loop"

\* fitTitleTo280 returns t
ReturnText(t) ==
    /\ text' = t
    /\ fpc' = "done"
    /\ UNCHANGED << cps, lo, hi, best >>

FitEnter ==
    /\ fpc = "enter"
    /\ LET t == cleanTitle(episodeTitle)
           full == renderTemplate(phrase, t, episodeUrl)
       IN  /\ title' = t
           /\ IF ~HasChar(phrase, "{title}")
              THEN /\ finalTitle' = t
                   /\ IF parseTweetValid(full)
                      THEN ReturnText(full)
                      ELSE StartTrim(full) /\ text' = full
              ELSE IF parseTweetValid(full)
              THEN finalTitle' = t /\ ReturnText(full)
              ELSE /\ cps' = t
                   /\ lo' = 0
                   /\ hi' = CpLen(t)
                   /\ best' = Empty
                   /\ fpc' = "title_loop"
                   /\ UNCHANGED << finalTitle, text >>
    /\ UNCHANGED << pc, error, cfgVars, selectVars, digestVars, pickVars, resolveVars,
                    phrase, netVars >>

mid == (lo + hi) \div 2

hiAbove == mid + 1

loSkip == mid + 2

\* lo = mid + 1
loAbove == mid + 1

\* hi = mid - 1
hiBelow == mid - 1

TitleLoopStep ==
    /\ fpc = "title_loop"
    /\ lo <= hi
    /\ LET cand == candidateAt(cps, mid)
       IN  IF parseTweetValid(renderTemplate(phrase, cand, episodeUrl))
           THEN best' = cand /\ lo' = loAbove /\ hi' = hi
           ELSE best' = best /\ lo' = lo /\ hi' = hiBelow
    /\ UNCHANGED << pc, error, cfgVars, selectVars, digestVars, pickVars, resolveVars,
                    phrase, title, finalTitle, text, cps, fpc, netVars >>

TitleLoopExit ==
    /\ fpc = "title_loop"
    /\ lo > hi
    /\ finalTitle' = best
    /\ LET t == renderTemplate(phrase, best, episodeUrl)
       IN  IF parseTweetValid(t) THEN ReturnText(t) ELSE StartTrim(t) /\ text' = t
    /\ UNCHANGED << pc, error, cfgVars, selectVars, digestVars, pickVars, resolveVars,
                    phrase, title, netVars >>

TrimLoopStep ==
    /\ fpc = "trim_loop"
    /\ lo <= hi
    /\ LET cand == candidateAt(cps, mid)
       IN  IF parseTweetValid(cand)
           THEN best' = cand /\ lo' = loAbove /\ hi' = hi
           ELSE best' = best /\ lo' = lo /\ hi' = hiBelow
    /\ UNCHANGED << pc, error, cfgVars, selectVars, digestVars, pickVars, resolveVars,
                    phrase, title, finalTitle, text, cps, fpc, netVars >>

TrimLoopExit ==
    /\ fpc = "trim_loop"
    /\ lo > hi
    /\ text' = IF Truthy(best) THEN best ELSE slice16(cps, 10)
    /\ fpc' = "done"
    /\ UNCHANGED << pc, error, cfgVars, selectVars, digestVars, pickVars, resolveVars,
                    phrase, title, finalTitle, cps, lo, hi, best, netVars >>

Fit == FitEnter \/ TitleLoopStep \/ TitleLoopExit \/ TrimLoopStep \/ TrimLoopExit

\* ------------------------------------------------------------------------
\* The runs
\* ------------------------------------------------------------------------
Call(op, res) == [op |-> op, res |-> res]

\* process.exit(1), or an exception that reaches main().catch
Abort(msg) ==
    /\ pc' = "failed"
    /\ error' = [msg |-> msg, status |-> 0, body |-> ""]

\* throw new Error(`X post failed: ${res.status} ${res.statusText}\n${bodyText}`)
AbortWith(msg, status, body) ==
    /\ pc' = "failed"
    /\ error' = [msg |-> msg, status |-> status, body |-> body]

\* new TwitterApi({ appKey: mustEnv(...), ... })
Setup ==
    /\ pc = "start"
    /\ variant \in { "search", "digest" }
    /\ IF env.xCreds
       THEN pc' = "feed" /\ error' = error
       ELSE Abort("Missing env")
    /\ UNCHANGED << cfgVars, selectVars, digestVars, pickVars, resolveVars, fitVars, netVars >>

hasAnyTitle(it) == TRUE

hasTitle(it) == Truthy(it.title)

\* parser.parseURL, else fetchText and parser.parseString; the items that
\* have a title
ParseFeed ==
    /\ pc = "feed"
    /\ variant \in { "search", "digest" }
    /\ \E res \in { "ok", "throw" } :
        /\ calls' = Append(calls, Call("feed", res))
        /\ IF res = "throw" THEN Abort("exception") /\ allItems' = allItems
           ELSE LET items == SelectSeq(feed, hasTitle)
                IN  /\ allItems' = items
                    /\ IF Len(items) = 0 THEN Abort("No RSS items found.")
                       ELSE /\ pc' = IF variant = "search" THEN "pick" ELSE "select"
                            /\ error' = error
    /\ UNCHANGED << cfgVars, episodes, digestVars, pickVars, resolveVars, fitVars, posts >>

\* picked.link || picked.guid || null
pageOf(it) == IF Truthy(it.link) THEN it.link ELSE it.guid

Pick ==
    /\ pc = "pick"
    /\ \E i \in 1..Len(allItems) :
        /\ picked' = allItems[i]
        /\ episodeTitle' = trim(allItems[i].title)
        /\ episodePage' = pageOf(allItems[i])
        /\ rssDateISO' = allItems[i].date
    /\ pc' = "page"
    /\ UNCHANGED << error, cfgVars, selectVars, digestVars, resolveVars, fitVars, netVars >>

PageOutcomes == { "throw", "notok", "nomatch", "url" }

\* the episode URL a page holds
PageUrl == S("u", 55)

\* tryExtractSpotifyEpisodeUrlFromPage: what it returns for an outcome of the
\* fetch; every failure is caught
extractedUrl(res) == IF res = "url" THEN PageUrl ELSE Empty

needsSearchAlways == TRUE

\* if (!episodeUrl)
needsSearch == ~Truthy(episodeUrl)

\* let episodeUrl = await tryExtractSpotifyEpisodeUrlFromPage(episodePage)
ExtractFromPage ==
    /\ pc = "page"
    /\ variant = "search"
    /\ IF ~Truthy(episodePage)
       THEN episodeUrl' = Empty /\ calls' = calls
       ELSE \E res \in PageOutcomes :
              /\ calls' = Append(calls, Call("page", res))
              /\ episodeUrl' = extractedUrl(res)
    /\ pc' = "token"
    /\ UNCHANGED << error, cfgVars, selectVars, digestVars, pickVars, token, searchItems,
                    warned, fitVars, posts >>

TokenOutcomes == { "throw", "notok", "badjson", "notoken", "token" }

\* spotifyGetTokenOptional: nothing caught
GetToken ==
    /\ pc = "token"
    /\ IF ~needsSearch
       THEN pc' = "fallback" /\ UNCHANGED << error, token, calls >>
       ELSE IF ~env.spotify
       THEN pc' = "fallback" /\ UNCHANGED << error, token, calls >>
       ELSE \E res \in TokenOutcomes :
              /\ calls' = Append(calls, Call("token", res))
              /\ IF res \in { "throw", "badjson" }
                 THEN Abort("exception") /\ token' = token
                 ELSE /\ token' = (res = "token")
                      /\ pc' = IF res = "token" THEN "search" ELSE "fallback"
                      /\ error' = error
    /\ UNCHANGED << cfgVars, selectVars, digestVars, pickVars, episodeUrl, searchItems,
                    warned, fitVars, posts >>

\* tryResolveSpotifyEpisodeUrlViaSearch: nothing caught
Search ==
    /\ pc = "search"
    /\ variant = "search"
    /\ token
    /\ \/ \E res \in { "throw", "badjson" } :
            /\ calls' = Append(calls, Call("search", res))
            /\ Abort("exception")
            /\ episodeUrl' = episodeUrl
       \/ /\ calls' = Append(calls, Call("search", "notok"))
          /\ episodeUrl' = Empty
          /\ pc' = "fallback"
          /\ error' = error
       \/ \E items \in SeqsUpTo(CandPool, MaxRunCands) :
            LET url == resolveFromItems(items, episodeTitle, rssDateISO)
            IN  /\ calls' = Append(calls, Call("search", IF Truthy(url) THEN "url" ELSE "none"))
                /\ episodeUrl' = url
                /\ pc' = "fallback"
                /\ error' = error
    /\ UNCHANGED << cfgVars, selectVars, digestVars, pickVars, token, searchItems, warned,
                    fitVars, posts >>

\* the feed's URL: env("RSS_URL", DEFAULT_RSS)
rssUrl == S("u", 41)

\* phrases: the built-in ones, or the lines of data/phrases.txt
Phrases ==
    { S("w", 8) \o S("{title}", 1) \o S(" ", 1) \o S("{url}", 1),
      S("w", 5) \o S("{title}", 1),
      S("w", 10),
      S("w", 150) \o S("{title}", 1) \o S("{url}", 1),
      S("w", 150) }

\* if (!episodeUrl) episodeUrl = episodePage || rssUrl; then the phrase is
\* picked and fitTitleTo280 is entered
Fallback ==
    /\ pc = "fallback"
    /\ IF ~Truthy(episodeUrl)
       THEN /\ episodeUrl' = IF Truthy(episodePage) THEN episodePage ELSE rssUrl
            /\ warned' = TRUE
       ELSE UNCHANGED << episodeUrl, warned >>
    /\ phrase' \in Phrases
    /\ fpc' = "enter"
    /\ pc' = "fit"
    /\ UNCHANGED << error, cfgVars, selectVars, digestVars, pickVars, token, searchItems,
                    title, finalTitle, text, cps, lo, hi, best, netVars >>

None == 0

Post(t, replyTo) ==
    [text |-> t, replyTo |-> replyTo, id |-> None, st |-> "pending", status |-> 0, body |-> ""]

\* await xClient.v2.tweet(text): the call is issued
Publish ==
    /\ pc = "fit"
    /\ fpc = "done"
    /\ posts' = Append(posts, Post(text, None))
    /\ pc' = "publishing"
    /\ UNCHANGED << error, cfgVars, selectVars, digestVars, pickVars, resolveVars, fitVars, calls >>

Returned(id, st) == [posts EXCEPT ![Len(posts)].id = id, ![Len(posts)].st = st]

\* await xClient.v2.tweet(text): it returns or throws
PublishReturn ==
    /\ pc = "publishing"
    /\ \/ /\ posts' = Returned(Len(posts), "ok")
          /\ calls' = Append(calls, Call("publish", "ok"))
          /\ pc' = "done"
          /\ error' = error
       \/ /\ posts' = Returned(None, "error")
          /\ calls' = Append(calls, Call("publish", "throw"))
          /\ Abort("exception")
    /\ UNCHANGED << cfgVars, selectVars, digestVars, pickVars, resolveVars, fitVars >>

\* ------------------------------------------------------------------------
\* The simple script: one post through the bearer token
\* ------------------------------------------------------------------------
DryRunOff == FALSE

\* const DRY_RUN = (process.env.DRY_RUN ?? "0").trim() === "1"
DRY_RUN == env.dryRun

SimpleStart ==
    /\ pc = "start"
    /\ variant = "simple"
    /\ IF ~env.rssUrl THEN Abort("Missing env: RSS_URL")
       ELSE IF ~env.bearer /\ ~DRY_RUN THEN Abort("Missing env: X_BEARER_TOKEN")
       ELSE pc' = "s_fetch" /\ error' = error
    /\ UNCHANGED << cfgVars, selectVars, digestVars, pickVars, resolveVars, fitVars, netVars >>

\* fetch(RSS_URL) and parser.parse: the feed's items or entries
SimpleFetch ==
    /\ pc = "s_fetch"
    /\ \E res \in { "ok", "notok", "throw" } :
        /\ calls' = Append(calls, Call("feed", res))
        /\ IF res = "throw" THEN Abort("exception") /\ allItems' = allItems
           ELSE IF res = "notok" THEN Abort("Failed to fetch RSS") /\ allItems' = allItems
           ELSE /\ allItems' = feed
                /\ IF Len(feed) = 0 THEN Abort("No items found in RSS/Atom feed.")
                   ELSE pc' = "s_pick" /\ error' = error
    /\ UNCHANGED << cfgVars, episodes, digestVars, pickVars, resolveVars, fitVars, posts >>

unknownTitle == S("w", 8)

\* "https://open.spotify.com/episode/" + id
episodeUrlOf(id) == Cat(S("u", 33), id)

episodeId == S("u", 22)

extractSpotifyEpisodeUrl(item) ==
    IF item.embed = "https" THEN episodeUrlOf(episodeId)
    ELSE IF item.embed = "bare" THEN Cat(S("u", 8), S("u", 25) \o episodeId)
    ELSE IF item.embed = "uri" THEN episodeUrlOf(episodeId)
    ELSE item.link

SimpleTemplates ==
    { S("w", 12) \o S("NL", 1) \o S("{title}", 1) \o S("NL", 1) \o S("{url}", 1),
      S("w", 3) \o S("1", 1) \o S("w", 2) \o S("NL", 1) \o S("{title}", 1) \o S("NL", 1)
          \o S("{url}", 1) }

buildTweetText(t, ttl, url) == Norm(replaceFirst(Norm(replaceFirst(t, "{title}", ttl)), "{url}", url))

\* SKIP_LATEST && items.length >= 2 ? items.slice(1) : items
poolOf(items) == IF env.skipLatest /\ Len(items) >= 2 THEN Tail(items) ELSE items

\* the item is picked, its URL extracted and the tweet built
SimplePick ==
    /\ pc = "s_pick"
    /\ \E i \in 1..Len(poolOf(allItems)), t \in SimpleTemplates :
        LET it == poolOf(allItems)[i]
            ttl == IF Truthy(it.title) THEN it.title ELSE unknownTitle
            url == extractSpotifyEpisodeUrl(it)
        IN  /\ picked' = it
            /\ episodeTitle' = ttl
            /\ episodePage' = it.link
            /\ rssDateISO' = it.date
            /\ episodeUrl' = url
            /\ IF ~Truthy(url)
               THEN Abort("Could not extract episode URL from feed item.") /\ text' = text
               ELSE /\ text' = buildTweetText(t, ttl, url)
                    /\ pc' = "s_built"
                    /\ error' = error
    /\ UNCHANGED << cfgVars, selectVars, digestVars, token, searchItems, warned,
                    phrase, title, finalTitle, cps, lo, hi, best, fpc, netVars >>

SimpleDryRun ==
    /\ pc = "s_built"
    /\ DRY_RUN
    /\ pc' = "done"
    /\ UNCHANGED << error, cfgVars, selectVars, digestVars, pickVars, resolveVars, fitVars, netVars >>

\* postToX(tweet): the call is issued
SimplePost ==
    /\ pc = "s_built"
    /\ ~DRY_RUN
    /\ posts' = Append(posts, Post(text, None))
    /\ pc' = "s_posting"
    /\ UNCHANGED << error, cfgVars, selectVars, digestVars, pickVars, resolveVars, fitVars, calls >>

\* postToX(tweet): the answer, a status that is not 2xx, or no answer
Statuses == { 201, 401, 403, 500 }

Bodies == { "", "detail" }

resOkAlways(status) == TRUE

\* res.ok
resOk(status) == status \in 200..299

ReturnedWith(id, st, status, body) ==
    [posts EXCEPT ![Len(posts)].id = id, ![Len(posts)].st = st,
                  ![Len(posts)].status = status, ![Len(posts)].body = body]

SimplePostReturn ==
    /\ pc = "s_posting"
    /\ \/ \E status \in Statuses, body \in Bodies :
            IF resOk(status)
            THEN /\ posts' = ReturnedWith(Len(posts), "ok", status, body)
                 /\ calls' = Append(calls, Call("publish", "ok"))
                 /\ pc' = "done"
                 /\ error' = error
            ELSE /\ posts' = ReturnedWith(None, "error", status, body)
                 /\ calls' = Append(calls, Call("publish", "notok"))
                 /\ AbortWith("X post failed", status, body)
       \/ /\ posts' = Returned(None, "error")
          /\ calls' = Append(calls, Call("publish", "throw"))
          /\ Abort("exception")
    /\ UNCHANGED << cfgVars, selectVars, digestVars, pickVars, resolveVars, fitVars >>

\* ------------------------------------------------------------------------
\* The digest script: a root post and a reply for each episode
\* ------------------------------------------------------------------------
\* hooks: the built-in ones, or the lines of data/weekly_hooks.txt
Hooks == { S("w", 20), S("w", 150) }

firstTextRawOf(hook) == Norm(hook \o S("NL", 1) \o S("w", 10) \o S("NL", 1) \o S("a", 8))

\* selectThreeEpisodes(allItems), then the first text
DigestSelect ==
    /\ pc = "select"
    /\ variant = "digest"
    /\ episodes' \in selectThreeEpisodes(allItems)
    /\ \E hook \in Hooks :
        LET raw == firstTextRawOf(hook)
        IN  IF parseTweetValid(raw) THEN ReturnText(raw) ELSE StartTrim(raw) /\ text' = raw
    /\ pc' = "d_first"
    /\ UNCHANGED << error, cfgVars, allItems, digestVars, pickVars, resolveVars,
                    phrase, title, finalTitle, netVars >>

\* const root = await xClient.v2.tweet(firstText): the call is issued
DigestPostRoot ==
    /\ pc = "d_first"
    /\ fpc = "done"
    /\ posts' = Append(posts, Post(text, None))
    /\ pc' = "d_root"
    /\ UNCHANGED << error, cfgVars, selectVars, digestVars, pickVars, resolveVars, fitVars, calls >>

replyTargetRoot(newId) == IF replyToId = None THEN newId ELSE replyToId

\* replyToId = newId
replyTarget(newId) == newId

\* a publish of the digest returns: an id, no id, or it throws
DigestPostReturn ==
    /\ pc \in { "d_root", "d_reply" }
    /\ \/ /\ posts' = Returned(Len(posts), "ok")
          /\ calls' = Append(calls, Call("publish", "ok"))
          /\ replyToId' = replyTarget(Len(posts))
          /\ idx' = IF pc = "d_root" THEN 0 ELSE idx + 1
          /\ pc' = "d_loop"
          /\ error' = error
       \/ /\ posts' = Returned(None, "noid")
          /\ calls' = Append(calls, Call("publish", "noid"))
          /\ Abort("Failed to post tweet (no tweet id).")
          /\ UNCHANGED digestVars
       \/ /\ posts' = Returned(None, "error")
          /\ calls' = Append(calls, Call("publish", "throw"))
          /\ Abort("exception")
          /\ UNCHANGED digestVars
    /\ UNCHANGED << cfgVars, selectVars, pickVars, resolveVars, fitVars >>

digestPhrase == S("w", 1) \o S(" ", 1) \o S("{title}", 1) \o S("NL", 1) \o S("{url}", 1)

\* it.link || it.guid || rssUrl
pageUrlOf(it) == IF Truthy(pageOf(it)) THEN pageOf(it) ELSE rssUrl

\* the loop body up to the publish: the page is fetched, fitTitleTo280 entered
DigestPage ==
    /\ pc = "d_loop"
    /\ idx < Len(episodes)
    /\ LET it == episodes[idx + 1] IN
       /\ picked' = it
       /\ episodeTitle' = trim(it.title)
       /\ episodePage' = pageUrlOf(it)
       /\ rssDateISO' = rssDateISO
       /\ \E res \in PageOutcomes :
            /\ calls' = Append(calls, Call("page", res))
            /\ episodeUrl' = IF Truthy(extractedUrl(res)) THEN extractedUrl(res) ELSE pageUrlOf(it)
    /\ phrase' = digestPhrase
    /\ fpc' = "enter"
    /\ pc' = "d_fit"
    /\ UNCHANGED << error, cfgVars, selectVars, digestVars, token, searchItems, warned,
                    title, finalTitle, text, cps, lo, hi, best, posts >>

\* await xClient.v2.tweet(text, { reply: ... }): the call is issued
DigestPostReply ==
    /\ pc = "d_fit"
    /\ fpc = "done"
    /\ posts' = Append(posts, Post(text, replyToId))
    /\ pc' = "d_reply"
    /\ UNCHANGED << error, cfgVars, selectVars, digestVars, pickVars, resolveVars, fitVars, calls >>

DigestFinish ==
    /\ pc = "d_loop"
    /\ idx >= Len(episodes)
    /\ pc' = "done"
    /\ UNCHANGED << error, cfgVars, selectVars, digestVars, pickVars, resolveVars, fitVars, netVars >>

\* ------------------------------------------------------------------------
\* Inputs of the runs
\* ------------------------------------------------------------------------
DigestPool ==
    { ItemWith(Str(<<" ", "a", " ", "b">>), Link(1), Empty, Now - 1, "none"),
      ItemWith(S("a", 300), Empty, S("g", 36), Now - 100, "none"),
      ItemWith(S("w", 200), Link(3), Empty, NoDate, "https"),
      ItemWith(S("e", 150), Link(5), Empty, Now - 1, "uri") }

RunPool == DigestPool \cup { ItemWith(Empty, Empty, Empty, NoDate, "bare") }

Envs(v) ==
    IF v = "simple"
    THEN { [NoEnv EXCEPT !.rssUrl = r, !.bearer = b, !.dryRun = d, !.skipLatest = k] :
             r \in BOOLEAN, b \in BOOLEAN, d \in BOOLEAN, k \in BOOLEAN }
    ELSE IF v = "search"
    THEN { [NoEnv EXCEPT !.xCreds = x, !.spotify = sp] : x \in BOOLEAN, sp \in BOOLEAN }
    ELSE { [NoEnv EXCEPT !.xCreds = x] : x \in BOOLEAN }

Feeds(v) ==
    IF v = "digest" THEN SeqsUpTo(DigestPool, MaxDigestFeed) ELSE SeqsUpTo(RunPool, MaxFeed)

Init ==
    /\ pc = "start"
    /\ variant \in { "simple", "search", "digest" }
    /\ env \in Envs(variant)
    /\ feed \in Feeds(variant)
    /\ Fresh

Next ==
    \/ SimpleStart
    \/ SimpleFetch
    \/ SimplePick
    \/ SimpleDryRun
    \/ SimplePost
    \/ SimplePostReturn
    \/ Setup
    \/ ParseFeed
    \/ Pick
    \/ ExtractFromPage
    \/ GetToken
    \/ Search
    \/ Fallback
    \/ Fit
    \/ Publish
    \/ PublishReturn
    \/ DigestSelect
    \/ DigestPostRoot
    \/ DigestPostReturn
    \/ DigestPage
    \/ DigestPostReply
    \/ DigestFinish

Spec == Init /\ [][Next]_vars

\* ------------------------------------------------------------------------
\* The fitting alone: fitTitleTo280 applied to a phrase, a title and a URL
\* ------------------------------------------------------------------------
FitPhrases ==
    { S("{title}", 1) \o S("NL", 1) \o S("{url}", 1),
      S("w", 8) \o S("{title}", 1) \o S(" ", 1) \o S("{url}", 1),
      S("w", 5) \o S("{title}", 1),
      S("w", 10),
      S("w", 40) \o S("{title}", 1) \o S(" ", 1) \o S("{url}", 1),
      S("w", 100) \o S("{title}", 1) \o S(" ", 1) \o S("{url}", 1),
      S("w", 127) \o S("{title}", 1) \o S(" ", 1) \o S("{url}", 1),
      S("w", 150) \o S("{title}", 1) \o S("{url}", 1),
      S("w", 150) }

FitTitles ==
    { Empty,
      Str(<<" ", "a", " ", " ", "b", " ">>),
      S("a", 100),
      S("w", 100),
      S("a", 256),
      S("a", 300),
      S("w", 200),
      S("e", 150),
      S("w", 127) \o S("CM", 1) \o S("w", 80) }

FitUrls == { S("u", 23), S("u", 41), S("u", 55) }

InitFit ==
    /\ pc = "fit"
    /\ variant = "fit" /\ env = NoEnv /\ feed = << >>
    /\ phrase \in FitPhrases
    /\ episodeTitle \in FitTitles
    /\ episodeUrl \in FitUrls
    /\ error = NoError
    /\ allItems = << >> /\ episodes = << >>
    /\ idx = 0 /\ replyToId = 0
    /\ picked = NoItem /\ episodePage = Empty /\ rssDateISO = NoDate
    /\ token = FALSE /\ searchItems = << >> /\ warned = FALSE
    /\ title = Empty /\ finalTitle = Empty /\ text = Empty
    /\ cps = Empty /\ lo = 0 /\ hi = 0 /\ best = Empty /\ fpc = "enter"
    /\ calls = << >> /\ posts = << >>

NextFit ==
    \/ FitEnter
    \/ TitleLoopStep
    \/ TitleLoopExit
    \/ TrimLoopStep
    \/ TrimLoopExit

SpecFit == InitFit /\ [][NextFit]_vars

\* a step of NextFit is possible exactly until fitTitleTo280 has returned
FitRunning == fpc # "done"

\* the loops are run to their end once entered: the weak fairness
\* WF_vars(NextFit), with ENABLED <<NextFit>>_vars written as FitRunning
SpecFitFair == SpecFit /\ (<>[]FitRunning => []<><<NextFit>>_vars)

\* ------------------------------------------------------------------------
\* Claims about the runs
\* ------------------------------------------------------------------------
\* C1: the publish call is never issued with a text that the weighted-length
\* rule reports invalid (over the budget of 280, or empty).
C1_PublishedTextValid ==
    \A i \in 1..Len(posts) : parseTweetValid(posts[i].text)

\* the resolution of the URL has ended
Resolved ==
    \/ variant = "simple" /\ picked # NoItem
    \/ variant = "search" /\ pc \in { "fit", "publishing", "done" }
    \/ variant = "digest" /\ pc \in { "d_fit", "d_reply" }

\* C2: for every feed item and every outcome of the page fetch and the
\* search, the resolution of the URL ends with a non-empty URL.
C2_ResolvedUrlNonEmpty ==
    Resolved => Truthy(episodeUrl)

ResolutionOps == { "page", "token", "search" }

\* C3: a failure of the page fetch, the token exchange, the episode search
\* or the decoding of their responses never aborts the run: a run that
\* failed did not fail in one of these calls.
C3_ResolutionFailureNotFatal ==
    (pc = "failed" /\ Len(calls) > 0) => calls[Len(calls)].op \notin ResolutionOps

IndexOf(op) == { i \in 1..Len(calls) : calls[i].op = op }

GaveUrl(op) == \E i \in IndexOf(op) : calls[i].res = "url"

\* C4: the cascade runs in the order page, search, fallback, and a step is
\* attempted only if every earlier one produced nothing: the token exchange
\* and the search are never issued before the page fetch or after it gave a
\* URL, the search only with a token, and the fallback link is used only
\* when neither the page nor the search gave a URL.
C4_CascadeOrder ==
    variant = "search" =>
        /\ \A i \in IndexOf("token") \cup IndexOf("search"), j \in IndexOf("page") :
              j < i /\ calls[j].res # "url"
        /\ \A i \in IndexOf("search") :
              \E j \in IndexOf("token") : j < i /\ calls[j].res = "token"
        /\ warned => ~GaveUrl("page") /\ ~GaveUrl("search")
        /\ (pc \in { "fit", "publishing", "done" } /\ ~warned) =>
              \/ GaveUrl("page") /\ episodeUrl = PageUrl
              \/ GaveUrl("search") /\ \E c \in CandPool : episodeUrl = c.url
        /\ (pc \in { "fit", "publishing", "done" } /\ warned) =>
              episodeUrl = (IF Truthy(episodePage) THEN episodePage ELSE rssUrl)

C4_Witness ==
    /\ variant = "search"
    /\ pc = "done"
    /\ warned
    /\ \E j \in IndexOf("page") : calls[j].res = "nomatch"
    /\ \E i \in IndexOf("search") : calls[i].res = "none"

\* C6: in the digest every publish is issued only after the one before it
\* has returned an identifier, every reply carries the identifier the post
\* before it returned (the root's for the first reply), and no publish is
\* issued after one that returned no identifier.
C6_ReplyChain ==
    variant = "digest" =>
        /\ Len(posts) > 0 => posts[1].replyTo = None
        /\ \A i \in 2..Len(posts) :
              /\ posts[i - 1].st = "ok"
              /\ posts[i - 1].id # None
              /\ posts[i].replyTo = posts[i - 1].id
        /\ \A i \in 1..Len(posts), j \in 1..Len(posts) :
              (i # j /\ posts[i].st = "ok" /\ posts[j].st = "ok") => posts[i].id # posts[j].id

C6_Witness ==
    /\ variant = "digest"
    /\ pc = "done"
    /\ Len(posts) = 4
    /\ \A i \in 1..4 : posts[i].st = "ok"

\* the item is the one most recently published of the feed
IsLatest(it) ==
    \E i \in 1..Len(allItems) :
        /\ allItems[i] = it
        /\ \A j \in 1..Len(allItems) : j # i => toDateMs(allItems[j]) < toDateMs(it)

\* C16: with skip-latest on and two items or more, the item picked for the
\* single post is never the most recently published one, in whatever order
\* the feed delivered its items.
C16_LatestSkipped ==
    (variant = "simple" /\ env.skipLatest /\ Len(allItems) >= 2 /\ picked # NoItem)
        => ~IsLatest(picked)

\* C18: when the publish endpoint answers with a status that is not 2xx,
\* postToX fails with the status and the body of the response, the run ends
\* in failure, and the post is never taken for a successful one.
C18_PublishFailureReported ==
    variant = "simple" =>
        \A i \in 1..Len(posts) :
            (posts[i].status # 0 /\ posts[i].status \notin 200..299) =>
                /\ posts[i].st = "error"
                /\ posts[i].id = None
                /\ pc = "failed"
                /\ error.msg = "X post failed"
                /\ error.status = posts[i].status
                /\ error.body = posts[i].body

C18_Witness ==
    /\ variant = "simple"
    /\ pc = "failed"
    /\ Len(posts) = 1
    /\ posts[1].status = 403
    /\ posts[1].body = "detail"
    /\ error.body = "detail"

\* a credential the run needs is missing
MissingCredential ==
    IF variant = "simple" THEN ~env.bearer /\ ~env.dryRun ELSE ~env.xCreds

\* the feed holds no item the script can use: none at all for the simple
\* script, none with a title for the others
NoEligibleItem ==
    IF variant = "simple" THEN Len(feed) = 0
    ELSE \A i \in 1..Len(feed) : feed[i].title = Empty

\* C19: when the feed yields no eligible item or a required credential is
\* missing, the run goes nowhere but to failure: nothing is selected,
\* resolved or published.
C19_InputErrorsFatal ==
    /\ MissingCredential => pc \in { "start", "failed" }
    /\ NoEligibleItem => pc \in { "start", "feed", "s_fetch", "failed" }
    /\ (MissingCredential \/ NoEligibleItem) =>
          /\ Len(posts) = 0
          /\ picked = NoItem
          /\ episodes = << >>

C19_Witness ==
    /\ variant = "search"
    /\ env.xCreds
    /\ Len(feed) > 0
    /\ NoEligibleItem
    /\ pc = "failed"
    /\ error.msg = "No RSS items found."
    /\ Len(calls) = 1

\* a publish call was issued, answered or not
PublishIssued ==
    \/ Len(posts) > 0
    \/ pc = "s_posting"
    \/ \E i \in 1..Len(calls) : calls[i].op = "publish"

\* the tweet was built from a picked item and its URL
Rendered ==
    /\ picked # NoItem
    /\ Truthy(episodeUrl)
    /\ text # Empty

\* C21: with dry-run on, no publish call is ever issued, whatever the feed
\* holds and whether or not the bearer token is set; a run that has picked
\* its item, resolved the URL and built the tweet then ends, in one step,
\* successfully and without posting.
C21_DryRunNeverPosts ==
    /\ [](env.dryRun => ~PublishIssued)
    /\ [](env.dryRun /\ pc = "done" => Rendered /\ error = NoError)
    /\ [][(env.dryRun /\ pc = "s_built") =>
            (pc' = "done" /\ error' = NoError /\ posts' = posts /\ calls' = calls
                /\ text' = text)]_vars

C21_Witness ==
    /\ variant = "simple"
    /\ env.dryRun
    /\ ~env.bearer
    /\ pc = "done"
    /\ Rendered
    /\ error = NoError
    /\ Len(posts) = 0
    /\ Len(calls) = 1

\* ------------------------------------------------------------------------
\* Claims about the search
\* ------------------------------------------------------------------------
ScoreOf(i) ==
    scoreEpisodeMatch(episodeTitle, rssDateISO, searchItems[i].name, searchItems[i].release_date)

IsMaxScore(i) == \A j \in 1..Len(searchItems) : ScoreOf(j) <= ScoreOf(i)

IsFirstMax(i) == IsMaxScore(i) /\ \A j \in 1..(i - 1) : ScoreOf(j) < ScoreOf(i)

\* C5: the search returns the URL of the first candidate, in result order,
\* whose score is the maximum of the list, and only if that score is at
\* least 250; below 250 (or with no candidate) it returns nothing
C5_FirstBestAboveThreshold ==
    pc = "searched" =>
        /\ Len(searchItems) = 0 => episodeUrl = Empty
        /\ \A i \in 1..Len(searchItems) :
              IsFirstMax(i) =>
                  episodeUrl = IF ScoreOf(i) >= minScore THEN searchItems[i].url ELSE Empty

C5_Witness ==
    /\ pc = "searched"
    /\ Truthy(episodeUrl)
    /\ \E i, j \in 1..Len(searchItems) :
          /\ i < j
          /\ IsFirstMax(i)
          /\ ScoreOf(j) = ScoreOf(i)
          /\ searchItems[j].url # searchItems[i].url
          /\ Truthy(searchItems[j].url)

\* names and dates a candidate may carry
CandNames == { c.name : c \in CandPool } \cup SearchTitles

CandDates == { c.release_date : c \in CandPool } \cup SearchDates

Tokens(s) == SplitSpaces(normalizeForMatch(s), Empty)

SameTitle(i) == normalizeForMatch(searchItems[i].name) = normalizeForMatch(episodeTitle)

\* the candidate has no date and shares no token with the feed title
Disjoint(i) ==
    /\ searchItems[i].release_date = NoDate
    /\ Tokens(searchItems[i].name) \cap Tokens(episodeTitle) = {}

\* one normalized title holds the other
Contains(i) ==
    \/ Includes(normalizeForMatch(searchItems[i].name), normalizeForMatch(episodeTitle))
    \/ Includes(normalizeForMatch(episodeTitle), normalizeForMatch(searchItems[i].name))

\* the scores a candidate can get for the feed title and date
Scores ==
    { scoreEpisodeMatch(episodeTitle, rssDateISO, n, d) : n \in CandNames, d \in CandDates }

IsTopScore(i) == \A x \in Scores : x <= ScoreOf(i)

\* C14, as the spec states it: a candidate with the same normalized title
\* and the same date gets the highest score a candidate can get, and one
\* with no date and no token in common with the feed title gets zero.
C14_Extremal ==
    pc = "searched" => \A i \in 1..Len(searchItems) :
        /\ (SameTitle(i) /\ searchItems[i].release_date = rssDateISO) => IsTopScore(i)
        /\ Disjoint(i) => ScoreOf(i) = 0

\* C14, amended: the candidate with no date and no token in common gets
\* zero when, besides, neither normalized title holds the other as a
\* substring; a candidate that holds the feed title inside longer words
\* scores for it.
C14_ExtremalUnlessContained ==
    pc = "searched" => \A i \in 1..Len(searchItems) :
        /\ (SameTitle(i) /\ searchItems[i].release_date = rssDateISO) => IsTopScore(i)
        /\ (Disjoint(i) /\ ~Contains(i)) => ScoreOf(i) = 0

C14_Witness ==
    /\ pc = "searched"
    /\ \E i, j \in 1..Len(searchItems) :
          /\ SameTitle(i)
          /\ searchItems[i].name # episodeTitle
          /\ IsDate(rssDateISO)
          /\ searchItems[i].release_date = rssDateISO
          /\ ScoreOf(i) = 1750
          /\ Disjoint(j)
          /\ ~Contains(j)
          /\ Truthy(normalizeForMatch(searchItems[j].name))
          /\ Truthy(normalizeForMatch(episodeTitle))
          /\ ScoreOf(j) = 0

\* ------------------------------------------------------------------------
\* Claims about the selector
\* ------------------------------------------------------------------------
Keys(items) == { keyFn(items[i]) : i \in 1..Len(items) }

DistinctCount == Cardinality(Keys(allItems))

Dates(items) == { toDateMs(items[i]) : i \in 1..Len(items) }

\* the date of the deduplicated item of key k: the newest item of that key
KeyDate(k) ==
    CHOOSE d \in Dates(allItems) :
        /\ \E i \in 1..Len(allItems) : keyFn(allItems[i]) = k /\ toDateMs(allItems[i]) = d
        /\ \A i \in 1..Len(allItems) : keyFn(allItems[i]) = k => toDateMs(allItems[i]) <= d

IsRecent(d) == d >= Now - days90

HasDuplicateKeys == DistinctCount < Len(allItems)

\* C7: the list selectThreeEpisodes returns holds no two items with the same
\* identity key (link, else guid, else title), on the short-list path and on
\* the path of the random picks
C7_NoDuplicateKeys ==
    pc = "selected" =>
        \A i, j \in 1..Len(episodes) : i # j => keyFn(episodes[i]) # keyFn(episodes[j])

C7_Witness ==
    /\ pc = "selected"
    /\ HasDuplicateKeys
    /\ DistinctCount >= 4
    /\ Len(episodes) = 3

\* C8: with at least three distinct items, the first item returned carries
\* the maximum date (toDateMs) of all input items, whatever the feed order
C8_FirstIsNewest ==
    (pc = "selected" /\ DistinctCount >= 3) =>
        \A i \in 1..Len(allItems) : toDateMs(episodes[1]) >= toDateMs(allItems[i])

C8_Witness ==
    /\ pc = "selected"
    /\ DistinctCount >= 3
    /\ \E i \in 2..Len(allItems) : toDateMs(allItems[i]) > toDateMs(allItems[1])
    /\ toDateMs(episodes[1]) > toDateMs(allItems[1])

\* C9: selectThreeEpisodes returns exactly min(3, d) items, d the number of
\* distinct identity keys of the input
C9_ExactlyMin3 ==
    pc = "selected" =>
        Len(episodes) = IF DistinctCount < 3 THEN DistinctCount ELSE 3

C9_Witness ==
    /\ pc = "selected"
    /\ HasDuplicateKeys
    /\ DistinctCount >= 4
    /\ Len(episodes) = 3
    /\ keyFn(episodes[2]) # keyFn(allItems[2])

\* C10: with at least three distinct items, item 1 is within the last 90
\* days whenever a distinct item other than item 0 is, and item 2 is older
\* than 90 days whenever a distinct item not chosen yet is; an item comes
\* from the remaining items only when its bucket is empty
C10_Buckets ==
    (pc = "selected" /\ DistinctCount >= 3) =>
        /\ (\E k \in Keys(allItems) \ { keyFn(episodes[1]) } : IsRecent(KeyDate(k)))
              => IsRecent(toDateMs(episodes[2]))
        /\ (\E k \in Keys(allItems) \ { keyFn(episodes[1]), keyFn(episodes[2]) } :
                ~IsRecent(KeyDate(k)))
              => ~IsRecent(toDateMs(episodes[3]))

C10_Witness ==
    /\ pc = "selected"
    /\ DistinctCount >= 4
    /\ IsRecent(toDateMs(episodes[2]))
    /\ ~IsRecent(toDateMs(episodes[3]))
    /\ \E k \in Keys(allItems) \ { keyFn(episodes[1]), keyFn(episodes[2]), keyFn(episodes[3]) } :
           IsRecent(KeyDate(k))

\* ------------------------------------------------------------------------
\* Claims about the fitting
\* ------------------------------------------------------------------------
\* the title fitTitleTo280 works on
CleanTitle == cleanTitle(episodeTitle)

TitleLen == CpLen(CleanTitle)

\* the title cut to L code points, as the loop renders it, is valid
Fits(L) == parseTweetValid(renderTemplate(phrase, candidateAt(CleanTitle, L), episodeUrl))

CutFits ==
    /\ HasChar(phrase, "{title}")
    /\ ~Fits(TitleLen)
    /\ \E k \in 0..(TitleLen - 1) : Fits(k)

\* k is the longest cut that fits, as a scan over all cut lengths finds it
IsLongestFit(k) ==
    /\ k \in 0..(TitleLen - 1)
    /\ Fits(k)
    /\ \A j \in (k + 1)..(TitleLen - 1) : ~Fits(j)

\* C12: when the whole title does not fit and some cut of it does,
\* fitTitleTo280 returns as finalTitle the longest prefix, with the ellipsis,
\* whose rendering is valid, as a scan over all cut lengths would; for
\* "{title}\n{url}" and a title of 200 wide characters that is the prefix of
\* 127 code points and the ellipsis.
C12_LongestPrefix ==
    (fpc = "done" /\ CutFits) =>
        /\ \E k \in 0..(TitleLen - 1) :
              IsLongestFit(k) /\ finalTitle = candidateAt(CleanTitle, k)
        /\ (phrase = S("{title}", 1) \o S("NL", 1) \o S("{url}", 1) /\ episodeTitle = S("w", 200))
              => finalTitle = S("w", 127) \o ell

C12_Witness ==
    /\ fpc = "done"
    /\ CutFits
    /\ phrase = S("{title}", 1) \o S("NL", 1) \o S("{url}", 1)
    /\ episodeTitle = S("w", 200)
    /\ CpLen(finalTitle) = 128

\* the text holds the URL in full
UrlWhole(t) == \E i \in 1..Len(t) : t[i].c = "u" /\ t[i].n >= CpLen(episodeUrl)

SomeTitleFits ==
    \/ \E k \in 0..TitleLen : Fits(k)
    \/ parseTweetValid(renderTemplate(phrase, Empty, episodeUrl))

NarrowFinal == finalTitleOf(phrase, S("a", 100), episodeUrl)

\* the steps agree with fitTitleTo280 taken as a function
FinalTitleAgrees ==
    fpc = "done" => finalTitle = finalTitleOf(phrase, episodeTitle, episodeUrl)

\* C15, as the spec states it: for the same phrase and URL a title of 100
\* wide characters is fitted to strictly fewer raw characters than a title
\* of 100 narrow characters.
C15_WideStrictlyShorter ==
    (fpc = "done" /\ episodeTitle = S("w", 100)) => CpLen(finalTitle) < CpLen(NarrowFinal)

\* C15, amended: the title of 100 wide characters is never fitted to more
\* raw characters than the title of 100 narrow ones, and to strictly fewer
\* when the wide title had to be cut and the narrow one keeps a character.
C15_WideNotLonger ==
    (fpc = "done" /\ episodeTitle = S("w", 100)) =>
        /\ CpLen(finalTitle) <= CpLen(NarrowFinal)
        /\ (finalTitle # CleanTitle /\ HasChar(NarrowFinal, "a"))
              => CpLen(finalTitle) < CpLen(NarrowFinal)

C15_Witness ==
    /\ fpc = "done"
    /\ episodeTitle = S("w", 100)
    /\ finalTitle # CleanTitle
    /\ NarrowFinal # S("a", 100)
    /\ HasChar(NarrowFinal, "a")
    /\ CpLen(finalTitle) < CpLen(NarrowFinal)

\* the i-th code point of s
RECURSIVE CharAt(_, _)
CharAt(s, i) ==
    IF Len(s) = 0 THEN "" ELSE IF i <= s[1].n THEN s[1].c ELSE CharAt(Tail(s), i - s[1].n)

\* a cut of s after k code points parts a character from its combining mark
SplitsAt(s, k) == k > 0 /\ k < CpLen(s) /\ CharAt(s, k + 1) = "CM"

\* C17: no cut made by fitTitleTo280 or hardTrimWholeText, the last resort
\* of 10 characters included, falls between the halves of a surrogate pair
\* or between a character and its combining mark.
C17_NoSplit ==
    fpc = "done" =>
        /\ ~HasChar(text, "HS")
        /\ (SomeTitleFits /\ finalTitle # CleanTitle /\ Truthy(finalTitle))
              => ~SplitsAt(CleanTitle, CpLen(finalTitle) - 1)
        /\ (~SomeTitleFits /\ Truthy(text))
              => ~SplitsAt(cps, CpLen(text) - 1)

\* C20: fitTitleTo280 terminates and returns a text without raising: every
\* iteration of either loop strictly shrinks the interval [lo, hi], and a
\* fit that is impossible ends in hardTrimWholeText, not in an error.
C20_Terminates ==
    /\ [][(fpc \in { "title_loop", "trim_loop" } /\ fpc' = fpc) => hi' - lo' < hi - lo]_vars
    /\ <>(fpc = "done" /\ error = NoError)

C20_Witness ==
    /\ fpc = "done"
    /\ HasChar(phrase, "{title}")
    /\ ~SomeTitleFits
    /\ Truthy(text)
    /\ parseTweetValid(text)

====
